---- MODULE Spec2Model ----
(***************************************************************************)
(* Model of 0x02-redis_basic: exercise.py (Cache with the count_calls and  *)
(* call_history decorators) and web.py (get_page behind track_and_cache).  *)
(* Text is a sequence of code points, bytes a sequence of 0..255.          *)
(***************************************************************************)
EXTENDS Integers, Sequences, FiniteSets, TLC

VARIABLES
    db,          \* redis string keys of the Cache database: key -> bytes
    lists,       \* redis list keys of the Cache database: key -> sequence of bytes
    pc,          \* per thread: position inside the decorated Cache.store call
    args,        \* per thread: the payload the running store call was given
    result,      \* per thread: the key the underlying store produced
    cid,         \* per thread: number of the running call (order of increments)
    ret,         \* what get / get_str / get_int returned, when the last step was one
    nCalls,      \* store call attempts so far
    raised,      \* store calls that ended with an exception
    overlapped,  \* TRUE once a store call began while another was running
    log,         \* returned store calls, in order of return
    inputsBy,    \* for every element of the inputs list, the call that pushed it
    outputsBy,   \* for every element of the outputs list, the call that pushed it
    issued,      \* keys uuid4 has produced
    rpc,         \* position inside replay: "idle", or "outputs" once inputs are read
    rin,         \* replay: the inputs list it read
    printed,     \* what replay printed, when the last step was its printing
    flushed,     \* TRUE once a further Cache object was constructed
    midFlush,    \* TRUE once a Cache was constructed while a store call was running
    now,         \* redis server clock, in seconds
    wdb,         \* web.py database: key -> [val: bytes, exp: expiry time or NoExpiry]
    wpc,         \* per caller: position inside track_and_cache.wrapper
    wurl,        \* per caller: url of the running / last get_page call
    wcontent,    \* per caller: what method(url) returned in the running / last call
    wret,        \* per caller: outcome of the last get_page call
    wseen,       \* per caller: the value INCR answered in the running / last call
    wpath,       \* per caller: "hit", "miss" or "failed" for the running / last call
    wraced,      \* per caller: TRUE when its miss happened while another caller's
                 \* miss on the same url was not yet written
    started,     \* url -> get_page calls started
    fetches,     \* url -> network fetches attempted
    wroteAt,     \* url -> time of the last SETEX of cache:<url>
    lastWriter   \* url -> caller whose SETEX wrote cache:<url> last

cacheVars == <<db, lists, pc, args, result, cid, ret, nCalls, raised, overlapped,
               log, inputsBy, outputsBy, issued, rpc, rin, printed, flushed, midFlush>>
webVars == <<now, wdb, wpc, wurl, wcontent, wret, wseen, wpath, wraced, started,
             fetches, wroteAt, lastWriter>>
vars == <<cacheVars, webVars>>

\* ---------------------------------------------------------------- bounds
MaxCalls == 2
MaxPageCalls == 3
MaxTime == 15
TickSeconds == 5

TTL == 10

Threads == {"t1", "t2"}
Callers == {"c1", "c2"}
URLs == {"u", "v"}
\* the bodies a fetch may answer: "", "a", "\u00e9"
Contents == {<<>>, <<97>>, <<233>>}
UUIDs == {"uuid-a", "uuid-b", "uuid-c"}

\* ------------------------------------------------------- text and bytes
\* Python values: bytes, str, int, and the float that is `tenths` tenths
BytesOf(b) == [type |-> "bytes", bytes |-> b]
TextOf(s) == [type |-> "str", chars |-> s]
IntOf(i) == [type |-> "int", int |-> i]
FloatOf(t) == [type |-> "float", tenths |-> t]

RECURSIVE Flatten(_)
Flatten(ss) == IF ss = <<>> THEN <<>> ELSE Head(ss) \o Flatten(Tail(ss))

\* str.encode("utf-8") of one code point below U+0800
Utf8Char(c) == IF c < 128 THEN <<c>> ELSE <<192 + (c \div 64), 128 + (c % 64)>>

\* str.encode("utf-8"), as redis-py applies it to str values
Utf8Encode(s) == Flatten([i \in 1..Len(s) |-> Utf8Char(s[i])])

\* bytes.decode("utf-8"): [ok, val]; ok = FALSE is UnicodeDecodeError
RECURSIVE Utf8Decode(_)
Utf8Decode(b) ==
    IF b = <<>> THEN [ok |-> TRUE, val |-> <<>>]
    ELSE IF b[1] < 128
         THEN LET r == Utf8Decode(Tail(b))
              IN  [ok |-> r.ok, val |-> IF r.ok THEN <<b[1]>> \o r.val ELSE <<>>]
    ELSE IF b[1] >= 194 /\ b[1] <= 223 /\ Len(b) >= 2 /\ b[2] >= 128 /\ b[2] <= 191
         THEN LET r == Utf8Decode(SubSeq(b, 3, Len(b)))
              IN  [ok |-> r.ok,
                   val |-> IF r.ok THEN <<(b[1] - 192) * 64 + (b[2] - 128)>> \o r.val
                           ELSE <<>>]
    ELSE [ok |-> FALSE, val |-> <<>>]

\* decimal digits of a natural number, as code points
RECURSIVE NatRepr(_)
NatRepr(n) == IF n < 10 THEN <<48 + n>> ELSE NatRepr(n \div 10) \o <<48 + (n % 10)>>

\* repr(int)
IntRepr(i) == IF i < 0 THEN <<45>> \o NatRepr(0 - i) ELSE NatRepr(i)

\* repr(float) of the float that is t tenths (shortest round-trip form)
FloatRepr(t) ==
    LET a == IF t < 0 THEN 0 - t ELSE t
    IN  (IF t < 0 THEN <<45>> ELSE <<>>) \o NatRepr(a \div 10) \o <<46, 48 + (a % 10)>>

IsDigit(c) == c >= 48 /\ c <= 57

RECURSIVE DigitsValue(_)
DigitsValue(b) ==
    IF b = <<>> THEN 0 ELSE DigitsValue(SubSeq(b, 1, Len(b) - 1)) * 10 + (b[Len(b)] - 48)

\* int(bytes): optional sign, then one or more digits: [ok, val]; ok = FALSE is
\* ValueError (blanks and underscores are outside the payload alphabet)
ParseInt(b) ==
    LET signed == b # <<>> /\ b[1] \in {43, 45}
        digits == IF signed THEN Tail(b) ELSE b
    IN  IF digits # <<>> /\ \A i \in 1..Len(digits) : IsDigit(digits[i])
        THEN [ok |-> TRUE,
              val |-> IF signed /\ b[1] = 45 THEN 0 - DigitsValue(digits)
                      ELSE DigitsValue(digits)]
        ELSE [ok |-> FALSE, val |-> 0]

HexDigit(n) == IF n < 10 THEN 48 + n ELSE 87 + n

\* one byte inside repr(bytes): printable ASCII is kept (quote and backslash are
\* outside the payload alphabet), anything else is written \xhh
ByteRepr(c) ==
    IF c >= 32 /\ c <= 126 THEN <<c>>
    ELSE <<92, 120, HexDigit(c \div 16), HexDigit(c % 16)>>

\* repr(p) of a payload, as str(args) writes it
Repr(p) ==
    CASE p.type = "str" -> <<39>> \o p.chars \o <<39>>
      [] p.type = "bytes" ->
            <<98, 39>> \o Flatten([i \in 1..Len(p.bytes) |-> ByteRepr(p.bytes[i])])
                       \o <<39>>
      [] p.type = "int" -> IntRepr(p.int)
      [] p.type = "float" -> FloatRepr(p.tenths)

\* str(args) for args = (p,)
StrArgs(p) == <<40>> \o Repr(p) \o <<44, 41>>

\* an encoder that writes text one byte per code point (latin-1) and not as UTF-8
EncodeLatin1(p) ==
    CASE p.type = "bytes" -> p.bytes
      [] p.type = "str" -> p.chars
      [] p.type = "int" -> IntRepr(p.int)
      [] p.type = "float" -> FloatRepr(p.tenths)

\* redis-py encoding of a value passed to SET: bytes as they are, str as UTF-8,
\* int and float as the bytes of their repr
Encode(p) ==
    CASE p.type = "bytes" -> p.bytes
      [] p.type = "str" -> Utf8Encode(p.chars)
      [] p.type = "int" -> Utf8Encode(IntRepr(p.int))
      [] p.type = "float" -> Utf8Encode(FloatRepr(p.tenths))

\* the payloads store is called with: "\u00e9", b"", b"\xff", 0, -1.5
Payloads ==
    {TextOf(<<233>>), BytesOf(<<>>), BytesOf(<<255>>), IntOf(0), FloatOf(0 - 15)}

\* the payloads of the single client of SpecSeq: 0 and "\u00e9"
SeqPayloads == {IntOf(0), TextOf(<<233>>)}

\* ------------------------------------------------------ redis primitives
None == [kind |-> "none"]
Value(p) == [kind |-> "value", val |-> p]
Error(e) == [kind |-> "error", err |-> e]

Put(d, k, v) == [x \in (DOMAIN d) \cup {k} |-> IF x = k THEN v ELSE d[x]]

\* INCR that forgets the stored value (a SET of 1 in its place)
RedisIncrForgetful(d, k) == Put(d, k, IntRepr(1))

\* INCR that adds 2
IncrValueByTwo(d, k) == IF k \in DOMAIN d THEN ParseInt(d[k]).val + 2 ELSE 2

\* INCR: an absent key counts as 0; the value is kept as the bytes of its decimal form
IncrValue(d, k) == IF k \in DOMAIN d THEN ParseInt(d[k]).val + 1 ELSE 1
RedisIncr(d, k) == Put(d, k, IntRepr(IncrValue(d, k)))

\* SET key value
RedisSet(d, k, v) == Put(d, k, v)

\* GET: None for an absent key, else the stored bytes
RedisGet(d, k) == IF k \in DOMAIN d THEN Value(BytesOf(d[k])) ELSE None

\* LPUSH in the place of RPUSH: the element goes to the head of the list
RedisLPush(l, k, v) == Put(l, k, <<v>> \o (IF k \in DOMAIN l THEN l[k] ELSE <<>>))

\* RPUSH key value: an absent list is created
RedisRPush(l, k, v) == Put(l, k, (IF k \in DOMAIN l THEN l[k] ELSE <<>>) \o <<v>>)

\* LRANGE key 0 -1
RedisLRange(l, k) == IF k \in DOMAIN l THEN l[k] ELSE <<>>

\* ------------------------------------------------------------ exercise.py
QualName == "Cache.store"
InputKey == QualName \o ":inputs"
OutputKey == QualName \o ":outputs"

\* a generator that returns the same key in every call
Uuid4Reused(used) == CHOOSE k \in UUIDs : TRUE

\* str(uuid.uuid4()): a key no earlier call drew. Which of the unused keys is drawn
\* is immaterial, so the keys are drawn in a fixed order
Uuid4(used) == CHOOSE k \in UUIDs \ used : TRUE

\* the keys get, get_str and get_int are called with
GetKeys == UUIDs

\* the call counter as an integer, 0 while the key is absent
Counter == IF QualName \in DOMAIN db THEN ParseInt(db[QualName]).val ELSE 0
Inputs == RedisLRange(lists, InputKey)
Outputs == RedisLRange(lists, OutputKey)

\* decoders that answer a default value where the conversion fails
DecodeLenient(fn, data) ==
    CASE fn = "str" ->
            LET r == Utf8Decode(data)
            IN  IF r.ok THEN Value(TextOf(r.val)) ELSE Value(TextOf(<<>>))
      [] fn = "int" ->
            LET r == ParseInt(data)
            IN  IF r.ok THEN Value(IntOf(r.val)) ELSE Value(IntOf(0))

\* fn(data) for the decoders of get_str (d.decode("utf-8")) and get_int (int)
Decode(fn, data) ==
    CASE fn = "str" ->
            LET r == Utf8Decode(data)
            IN  IF r.ok THEN Value(TextOf(r.val)) ELSE Error("UnicodeDecodeError")
      [] fn = "int" ->
            LET r == ParseInt(data)
            IN  IF r.ok THEN Value(IntOf(r.val)) ELSE Error("ValueError")

\* a get that tests the truth value of the data (`if not data`) and not `is None`
CacheGetFalsy(d, k, fn) ==
    LET data == RedisGet(d, k)
    IN  IF data = None \/ data.val.bytes = <<>> THEN None
        ELSE IF fn # "none" THEN Decode(fn, data.val.bytes) ELSE data

\* Cache.get(key, fn); fn = "none" is the call without a decoder
CacheGet(d, k, fn) ==
    LET data == RedisGet(d, k)
    IN  IF data = None THEN None
        ELSE IF fn # "none" THEN Decode(fn, data.val.bytes) ELSE data

\* a zip that goes on to the end of the longer list and fills the gaps
ZipLongest(ins, outs) ==
    [i \in 1..(IF Len(ins) < Len(outs) THEN Len(outs) ELSE Len(ins)) |->
        [inp |-> IF i <= Len(ins) THEN Utf8Decode(ins[i]).val ELSE <<>>,
         out |-> IF i <= Len(outs) THEN outs[i] ELSE ""]]

\* zip(inputs, outputs): pairs up to the length of the shorter list
Zip(ins, outs) ==
    [i \in 1..(IF Len(ins) < Len(outs) THEN Len(ins) ELSE Len(outs)) |->
        [inp |-> Utf8Decode(ins[i]).val, out |-> outs[i]]]

\* a replay that takes the count of its header from the outputs list
ReplayOutputCountsOutputs(ins, outs) ==
    [name |-> QualName, n |-> Len(outs), lines |-> Zip(ins, outs),
     readIn |-> ins, readOut |-> outs]

\* what replay prints for the lists it read: the header "<qualname> was called
\* <n> times:" and a line "<qualname>(*<inp>) -> <out>" per pair; readIn and
\* readOut keep the lists as they were read
ReplayOutput(ins, outs) ==
    [name |-> QualName, n |-> Len(ins), lines |-> Zip(ins, outs),
     readIn |-> ins, readOut |-> outs]

\* replay has not just printed
NoPrinted == [name |-> "", n |-> 0, lines |-> <<>>, readIn |-> <<>>, readOut |-> <<>>]

\* no read has just returned
NoRet == [op |-> "none", key |-> "", out |-> None]

\* the locals of a thread that is not inside a call
NoArgs == [type |-> "unbound"]

Init ==
    /\ db = <<>>
    /\ lists = <<>>
    /\ pc = [t \in Threads |-> "idle"]
    /\ args = [t \in Threads |-> NoArgs]
    /\ result = [t \in Threads |-> ""]
    /\ cid = [t \in Threads |-> 0]
    /\ ret = NoRet
    /\ nCalls = 0
    /\ raised = 0
    /\ overlapped = FALSE
    /\ log = <<>>
    /\ inputsBy = <<>>
    /\ outputsBy = <<>>
    /\ issued = {}
    /\ rpc = "idle"
    /\ rin = <<>>
    /\ printed = NoPrinted
    /\ flushed = FALSE
    /\ midFlush = FALSE
    /\ now = 0
    /\ wdb = <<>>
    /\ wpc = [c \in Callers |-> "idle"]
    /\ wurl = [c \in Callers |-> ""]
    /\ wcontent = [c \in Callers |-> <<>>]
    /\ wret = [c \in Callers |-> None]
    /\ wseen = [c \in Callers |-> 0]
    /\ wpath = [c \in Callers |-> "none"]
    /\ wraced = [c \in Callers |-> FALSE]
    /\ started = [u \in URLs |-> 0]
    /\ fetches = [u \in URLs |-> 0]
    /\ wroteAt = [u \in URLs |-> 0]
    /\ lastWriter = [u \in URLs |-> ""]

\* count_calls.wrapper up to the call of the wrapped method: INCR of the qualname
StoreCall(t, p) ==
    /\ pc[t] = "idle"
    /\ nCalls < MaxCalls
    /\ db' = RedisIncr(db, QualName)
    /\ pc' = [pc EXCEPT ![t] = "push_input"]
    /\ args' = [args EXCEPT ![t] = p]
    /\ cid' = [cid EXCEPT ![t] = nCalls + 1]
    /\ nCalls' = nCalls + 1
    /\ overlapped' = (overlapped \/ \E u \in Threads : pc[u] # "idle")
    /\ UNCHANGED <<lists, result, raised, log, inputsBy, outputsBy, issued>>
    /\ ret' = NoRet
    /\ printed' = NoPrinted
    /\ UNCHANGED <<rpc, rin, flushed, midFlush>>
    /\ UNCHANGED webVars

\* a wrapper that swallows the exception of INCR and goes on to record the call
StoreCallFailRecorded(t) ==
    /\ pc[t] = "idle"
    /\ nCalls < MaxCalls
    /\ nCalls' = nCalls + 1
    /\ raised' = raised + 1
    /\ pc' = [pc EXCEPT ![t] = "push_input"]
    /\ args' = [args EXCEPT ![t] = IntOf(0)]
    /\ cid' = [cid EXCEPT ![t] = nCalls + 1]
    /\ UNCHANGED <<db, lists, result, overlapped, log, inputsBy, outputsBy, issued>>
    /\ ret' = NoRet
    /\ printed' = NoPrinted
    /\ UNCHANGED <<rpc, rin, flushed, midFlush>>
    /\ UNCHANGED webVars

\* count_calls.wrapper when INCR raises: the call ends before anything is written
StoreCallFail(t) ==
    /\ pc[t] = "idle"
    /\ nCalls < MaxCalls
    /\ nCalls' = nCalls + 1
    /\ raised' = raised + 1
    /\ UNCHANGED <<db, lists, pc, args, result, cid, overlapped, log,
                   inputsBy, outputsBy, issued>>
    /\ ret' = NoRet
    /\ printed' = NoPrinted
    /\ UNCHANGED <<rpc, rin, flushed, midFlush>>
    /\ UNCHANGED webVars

\* call_history.wrapper: rpush(input_key, str(args))
PushInput(t) ==
    /\ pc[t] = "push_input"
    /\ lists' = RedisRPush(lists, InputKey, Utf8Encode(StrArgs(args[t])))
    /\ inputsBy' = Append(inputsBy, cid[t])
    /\ pc' = [pc EXCEPT ![t] = "set"]
    /\ UNCHANGED <<db, args, result, cid, nCalls, raised, overlapped, log,
                   outputsBy, issued>>
    /\ ret' = NoRet
    /\ printed' = NoPrinted
    /\ UNCHANGED <<rpc, rin, flushed, midFlush>>
    /\ UNCHANGED webVars

\* Cache.store: key = str(uuid.uuid4()); set(key, data)
StoreSet(t) ==
    /\ pc[t] = "set"
    /\ UUIDs \ issued # {}
    /\ LET k == Uuid4(issued)
       IN  /\ db' = RedisSet(db, k, Encode(args[t]))
           /\ result' = [result EXCEPT ![t] = k]
           /\ issued' = issued \cup {k}
    /\ pc' = [pc EXCEPT ![t] = "push_output"]
    /\ UNCHANGED <<lists, args, cid, nCalls, raised, overlapped, log,
                   inputsBy, outputsBy>>
    /\ ret' = NoRet
    /\ printed' = NoPrinted
    /\ UNCHANGED <<rpc, rin, flushed, midFlush>>
    /\ UNCHANGED webVars

\* call_history.wrapper: rpush(output_key, str(result)); return result
PushOutput(t) ==
    /\ pc[t] = "push_output"
    /\ lists' = RedisRPush(lists, OutputKey, result[t])
    /\ outputsBy' = Append(outputsBy, cid[t])
    /\ log' = Append(log, [cid |-> cid[t], arg |-> args[t], key |-> result[t]])
    /\ pc' = [pc EXCEPT ![t] = "idle"]
    /\ args' = [args EXCEPT ![t] = NoArgs]
    /\ result' = [result EXCEPT ![t] = ""]
    /\ cid' = [cid EXCEPT ![t] = 0]
    /\ UNCHANGED <<db, nCalls, raised, overlapped, inputsBy, issued>>
    /\ ret' = NoRet
    /\ printed' = NoPrinted
    /\ UNCHANGED <<rpc, rin, flushed, midFlush>>
    /\ UNCHANGED webVars

\* the next redis command of a running store call raises: the exception reaches
\* the caller and the rest of the call is not executed
StoreRaise(t) ==
    /\ pc[t] \in {"push_input", "set", "push_output"}
    /\ pc' = [pc EXCEPT ![t] = "idle"]
    /\ raised' = raised + 1
    /\ args' = [args EXCEPT ![t] = NoArgs]
    /\ result' = [result EXCEPT ![t] = ""]
    /\ cid' = [cid EXCEPT ![t] = 0]
    /\ UNCHANGED <<db, lists, nCalls, overlapped, log, inputsBy, outputsBy, issued>>
    /\ ret' = NoRet
    /\ printed' = NoPrinted
    /\ UNCHANGED <<rpc, rin, flushed, midFlush>>
    /\ UNCHANGED webVars

\* a get that is counted like store: INCR of its own qualified name
GetCounted(k) ==
    /\ ret' = [op |-> "get", key |-> k, out |-> CacheGet(db, k, "none")]
    /\ db' = RedisIncr(db, "Cache.get")
    /\ UNCHANGED <<lists, pc, args, result, cid, nCalls, raised, overlapped, log,
                   inputsBy, outputsBy, issued>>
    /\ printed' = NoPrinted
    /\ UNCHANGED <<rpc, rin, flushed, midFlush>>
    /\ UNCHANGED webVars

\* Cache.get(key) without a decoder
Get(k) ==
    /\ ret' = [op |-> "get", key |-> k, out |-> CacheGet(db, k, "none")]
    /\ UNCHANGED <<db, lists, pc, args, result, cid, nCalls, raised, overlapped, log,
                   inputsBy, outputsBy, issued>>
    /\ printed' = NoPrinted
    /\ UNCHANGED <<rpc, rin, flushed, midFlush>>
    /\ UNCHANGED webVars

\* Cache.get_str(key)
GetStr(k) ==
    /\ ret' = [op |-> "get_str", key |-> k, out |-> CacheGet(db, k, "str")]
    /\ UNCHANGED <<db, lists, pc, args, result, cid, nCalls, raised, overlapped, log,
                   inputsBy, outputsBy, issued>>
    /\ printed' = NoPrinted
    /\ UNCHANGED <<rpc, rin, flushed, midFlush>>
    /\ UNCHANGED webVars

\* Cache.get_int(key)
GetInt(k) ==
    /\ ret' = [op |-> "get_int", key |-> k, out |-> CacheGet(db, k, "int")]
    /\ UNCHANGED <<db, lists, pc, args, result, cid, nCalls, raised, overlapped, log,
                   inputsBy, outputsBy, issued>>
    /\ printed' = NoPrinted
    /\ UNCHANGED <<rpc, rin, flushed, midFlush>>
    /\ UNCHANGED webVars

\* replay, lines 85-89: inputs = lrange(input_key, 0, -1)
ReplayReadInputs ==
    /\ rpc = "idle"
    /\ rin' = RedisLRange(lists, InputKey)
    /\ rpc' = "outputs"
    /\ ret' = NoRet
    /\ printed' = NoPrinted
    /\ UNCHANGED <<db, lists, pc, args, result, cid, nCalls, raised, overlapped, log,
                   inputsBy, outputsBy, issued, flushed, midFlush>>
    /\ UNCHANGED webVars

\* replay, lines 90-93: outputs = lrange(output_key, 0, -1), then the header and
\* one line per pair of zip(inputs, outputs)
ReplayPrintOut ==
    /\ rpc = "outputs"
    /\ printed' = ReplayOutput(rin, RedisLRange(lists, OutputKey))
    /\ rpc' = "idle"
    /\ rin' = <<>>
    /\ ret' = NoRet
    /\ UNCHANGED <<db, lists, pc, args, result, cid, nCalls, raised, overlapped, log,
                   inputsBy, outputsBy, issued, flushed, midFlush>>
    /\ UNCHANGED webVars

\* Cache.__init__: redis.Redis() and flushdb(), which empties the database that
\* holds the counter, the history lists, the stored entries and the keys of web.py
Construct ==
    /\ db' = <<>>
    /\ lists' = <<>>
    /\ wdb' = <<>>
    /\ flushed' = TRUE
    /\ midFlush' = (midFlush \/ \E t \in Threads : pc[t] # "idle")
    /\ ret' = NoRet
    /\ printed' = NoPrinted
    /\ UNCHANGED <<pc, args, result, cid, nCalls, raised, overlapped, log, inputsBy,
                   outputsBy, issued, rpc, rin>>
    /\ UNCHANGED <<now, wpc, wurl, wcontent, wret, wseen, wpath, wraced, started,
                   fetches, wroteAt, lastWriter>>

Next ==
    \/ \E t \in Threads, p \in Payloads : StoreCall(t, p)
    \/ \E t \in Threads : StoreCallFail(t)
    \/ \E t \in Threads : PushInput(t)
    \/ \E t \in Threads : StoreSet(t)
    \/ \E t \in Threads : PushOutput(t)
    \/ \E t \in Threads : StoreRaise(t)
    \/ \E k \in GetKeys : Get(k)
    \/ \E k \in GetKeys : GetStr(k)
    \/ \E k \in GetKeys : GetInt(k)

Spec == Init /\ [][Next]_vars

\* the store calls of the two threads
StoreNext ==
    \/ \E t \in Threads, p \in Payloads : StoreCall(t, p)
    \/ \E t \in Threads : StoreCallFail(t)
    \/ \E t \in Threads : PushInput(t)
    \/ \E t \in Threads : StoreSet(t)
    \/ \E t \in Threads : PushOutput(t)
    \/ \E t \in Threads : StoreRaise(t)

SpecStore == Init /\ [][StoreNext]_vars

\* store calls of two threads while further Cache objects are constructed
CtorNext ==
    \/ StoreNext
    \/ Construct

SpecCtor == Init /\ [][CtorNext]_vars

\* every operation of the layer: the store calls of one thread, the reads, replay
\* and the construction of further Cache objects beside it
SeqNext ==
    \/ \E p \in SeqPayloads : StoreCall("t1", p)
    \/ StoreCallFail("t1")
    \/ PushInput("t1")
    \/ StoreSet("t1")
    \/ PushOutput("t1")
    \/ StoreRaise("t1")
    \/ \E k \in GetKeys : Get(k)
    \/ \E k \in GetKeys : GetStr(k)
    \/ \E k \in GetKeys : GetInt(k)
    \/ ReplayReadInputs
    \/ ReplayPrintOut
    \/ Construct

SpecSeq == Init /\ [][SeqNext]_vars

\* ------------------------------------------------- properties of exercise.py
Min(a, b) == IF a < b THEN a ELSE b

\* every store call that was attempted has returned its key: no thread is inside
\* a call and no call ended with an exception
AllReturned == raised = 0 /\ \A t \in Threads : pc[t] = "idle"

\* C1: after N store calls, issued by the threads in any interleaving and all
\* returned, the counter under the qualified name of Cache.store equals N
C1_CounterEqualsCalls == AllReturned => Counter = Len(log)

\* two overlapping calls of two threads have returned
C1_Witness == AllReturned /\ overlapped /\ Len(log) = MaxCalls /\ Counter = MaxCalls

\* C2: after N completed store calls both history lists have length N, and when
\* the calls were made one after the other, inputs[i] is str(args) of the i-th
\* call and outputs[i] its returned key; str((0,)) is "(0,)"
C2_HistoryMatchesCalls ==
    AllReturned =>
        /\ Len(Inputs) = Len(log)
        /\ Len(Outputs) = Len(log)
        /\ ~overlapped =>
              \A i \in 1..Len(log) :
                  /\ log[i].cid = i
                  /\ Inputs[i] = Utf8Encode(StrArgs(log[i].arg))
                  /\ log[i].arg = IntOf(0) => Inputs[i] = <<40, 48, 44, 41>>
                  /\ Outputs[i] = log[i].key

\* two calls with different payloads, one after the other, have returned
C2_Witness ==
    /\ AllReturned /\ ~overlapped /\ Len(log) = 2
    /\ log[1].arg = IntOf(0) /\ log[2].arg = TextOf(<<233>>)

\* C3: with concurrent callers and no failed call, the elements at one index of
\* the inputs and outputs lists were pushed by the same call
C3_PairedByCall ==
    raised = 0 =>
        \A i \in 1..Min(Len(inputsBy), Len(outputsBy)) : inputsBy[i] = outputsBy[i]

\* the bytes redis holds for a payload: raw bytes as they are, text as UTF-8,
\* numbers as the ASCII text of their repr
StoredForm(p) ==
    CASE p.type = "bytes" -> p.bytes
      [] p.type = "str" -> Flatten([i \in 1..Len(p.chars) |-> Utf8Char(p.chars[i])])
      [] p.type = "int" -> IntRepr(p.int)
      [] p.type = "float" -> FloatRepr(p.tenths)

\* the read that just returned was get(key) of a key store returned for payload p
ReadBackOf(i) == ret.op = "get" /\ ret.key = log[i].key

\* C4 as claimed: get(store(p)) without a decoder returns p, value and type
C4_RoundTripUnchanged ==
    \A i \in 1..Len(log) : ReadBackOf(i) => ret.out = Value(log[i].arg)

\* C4 as amended: get(store(p)) without a decoder returns the bytes redis holds
\* for p, which is p itself only when p is raw bytes
C4_RoundTripBytes ==
    \A i \in 1..Len(log) :
        ReadBackOf(i) =>
            /\ ret.out = Value(BytesOf(StoredForm(log[i].arg)))
            /\ (ret.out = Value(log[i].arg)) <=> (log[i].arg.type = "bytes")

\* a text payload with a non-ASCII character was stored and read back
C4_Witness ==
    \E i \in 1..Len(log) :
        /\ ReadBackOf(i)
        /\ log[i].arg = TextOf(<<233>>)
        /\ ret.out = Value(BytesOf(<<195, 169>>))

\* C5: get, get_str and get_int of an absent key return None; of a key that
\* holds a payload, the empty one and zero included, never None
C5_AbsentIsNone ==
    ret.op \in {"get", "get_str", "get_int"} =>
        /\ ret.key \notin DOMAIN db => ret.out = None
        /\ ret.key \in DOMAIN db => ret.out # None
        /\ (ret.key \in DOMAIN db /\ db[ret.key] = <<>>) =>
              ret.out = (CASE ret.op = "get" -> Value(BytesOf(<<>>))
                           [] ret.op = "get_str" -> Value(TextOf(<<>>))
                           [] ret.op = "get_int" -> Error("ValueError"))
        /\ (ret.key \in DOMAIN db /\ db[ret.key] = <<48>> /\ ret.op = "get_int") =>
              ret.out = Value(IntOf(0))

\* get_str has read a key that holds the empty payload
C5_Witness ==
    /\ ret.op = "get_str" /\ ret.key \in DOMAIN db /\ db[ret.key] = <<>>
    /\ ret.out = Value(TextOf(<<>>))

\* a step that starts a store call: the INCR of count_calls.wrapper
StoreStarts == \E t \in Threads, p \in Payloads : StoreCall(t, p)

\* C11 as claimed: over any sequence of Cache constructions, store, get, get_str,
\* get_int and replay, no step makes the call counter of Cache.store smaller
C11_NeverDecreases == [][Counter' >= Counter]_vars

\* C11 as amended: a step that starts a store call raises the counter by exactly
\* 1, the construction of a Cache (flushdb) sets it back to 0, and every other
\* step (the rest of a store call, get, get_str, get_int, replay) leaves it as it is
C11_CounterSteps ==
    [][ /\ StoreStarts => Counter' = Counter + 1
        /\ Construct => Counter' = 0
        /\ (~StoreStarts /\ ~Construct) => Counter' = Counter ]_vars

\* two store calls have returned with a Cache constructed between them: the
\* counter is 1 behind the two calls
C11_Witness == flushed /\ AllReturned /\ Len(log) = 2 /\ Counter = 1

\* replay has just printed
Replayed == printed.name = QualName

\* C12 as claimed: whenever replay runs, it prints as many call lines as the
\* count N of its header, N being the length of the inputs list
C12_LinesEqualHeader == Replayed => Len(printed.lines) = printed.n

\* C12 as amended: the header states N = len(inputs); replay prints at most N
\* call lines, exactly N when the outputs list it read has at least N elements,
\* and line i shows inputs[i] with outputs[i]; after calls made one after the
\* other that all returned, line i shows str(args) and the key of the i-th call
C12_LinesUpToHeader ==
    Replayed =>
        /\ printed.n = Len(printed.readIn)
        /\ Len(printed.lines) <= printed.n
        /\ Len(printed.readOut) >= printed.n =>
              /\ Len(printed.lines) = printed.n
              /\ \A i \in 1..printed.n :
                    /\ Utf8Encode(printed.lines[i].inp) = printed.readIn[i]
                    /\ printed.lines[i].out = printed.readOut[i]
        /\ (AllReturned /\ ~flushed /\ printed.n = Len(log)) =>
              \A i \in 1..Len(log) :
                  printed.lines[i] = [inp |-> StrArgs(log[i].arg), out |-> log[i].key]

\* replay has printed the two calls store(0) and store("é") under a header of 2
C12_Witness ==
    /\ Replayed /\ AllReturned /\ ~flushed
    /\ printed.n = 2 /\ Len(printed.lines) = 2
    /\ printed.lines[1].inp = <<40, 48, 44, 41>>
    /\ log[2].arg = TextOf(<<233>>)

\* how many times the call with number c occurs in a list of call numbers
Occurrences(s, c) == Cardinality({i \in 1..Len(s) : s[i] = c})

\* the order inside the store calls, in every state: a call that has not yet
\* pushed its input has written nothing, a call at or past the write has pushed
\* its input once and its output not yet, and no call is recorded twice
C13_OrderInCall ==
    /\ Cardinality(issued) <= Len(Inputs)
    /\ Len(Inputs) <= Counter
    /\ \A t \in Threads :
          /\ pc[t] = "push_input" =>
                Occurrences(inputsBy, cid[t]) = 0 /\ Occurrences(outputsBy, cid[t]) = 0
          /\ pc[t] = "set" =>
                Occurrences(inputsBy, cid[t]) = 1 /\ Occurrences(outputsBy, cid[t]) = 0
          /\ pc[t] = "push_output" =>
                /\ Occurrences(inputsBy, cid[t]) = 1 /\ Occurrences(outputsBy, cid[t]) = 0
                /\ result[t] \in DOMAIN db
    /\ \A c \in 1..nCalls :
          Occurrences(inputsBy, c) <= 1 /\ Occurrences(outputsBy, c) <= 1
    /\ \A i \in 1..Len(log) :
          Occurrences(inputsBy, log[i].cid) = 1 /\ Occurrences(outputsBy, log[i].cid) = 1

\* the steps of the counter: an attempt whose INCR raises ends with nothing
\* written, nothing appended and no call running on; an attempt whose INCR
\* succeeds raises the counter by 1 and writes nothing else; no later step of the
\* call touches the counter
C13_IncrSteps ==
    /\ (nCalls' = nCalls + 1 /\ raised' = raised + 1) =>
          db' = db /\ lists' = lists /\ pc' = pc /\ issued' = issued
    /\ (nCalls' = nCalls + 1 /\ raised' = raised) =>
          /\ Counter' = Counter + 1
          /\ lists' = lists /\ issued' = issued
          /\ \A k \in (DOMAIN db \cup DOMAIN db') \ {QualName} :
                k \in DOMAIN db /\ k \in DOMAIN db' /\ db'[k] = db[k]
    /\ nCalls' = nCalls => Counter' = Counter

\* C13: in every decorated Cache.store call the increment comes before the
\* input append and before the underlying write; if the increment fails, the
\* call fails with nothing written and nothing appended; in every attempt the
\* counter and the history recorder fire at most once, and exactly once in each
\* call that returns
C13_IncrementFirst == []C13_OrderInCall /\ [][C13_IncrSteps]_vars

\* of two attempts, the INCR of one raised and the other is at its write, with
\* its increment and its input append done
C13_Witness ==
    /\ nCalls = 2 /\ raised = 1 /\ Counter = 1
    /\ \E t \in Threads : pc[t] = "set"
    /\ Len(Inputs) = 1 /\ issued = {}

\* the keys store has returned or is about to return
KeysOut == ({log[i].key : i \in 1..Len(log)} \cup {result[t] : t \in Threads}) \ {""}

\* in every state the returned keys differ from one another and from the keys of
\* the running calls, none of them is the key of the counter, and each still
\* holds the bytes of the payload it was returned for
C14_EntriesKept ==
    /\ \A i, j \in 1..Len(log) : i # j => log[i].key # log[j].key
    /\ \A i \in 1..Len(log), t \in Threads : log[i].key # result[t]
    /\ \A t, u \in Threads : (t # u /\ result[t] # "") => result[t] # result[u]
    /\ QualName \notin KeysOut
    /\ \A i \in 1..Len(log) :
          log[i].key \in DOMAIN db /\ db[log[i].key] = StoredForm(log[i].arg)

\* no step of a store call or of a read overwrites or deletes an entry
C14_NoOverwrite ==
    \A k \in DOMAIN db \ {QualName} : k \in DOMAIN db' /\ db'[k] = db[k]

\* C14: every key returned by Cache.store differs from every key returned
\* earlier, a store call never overwrites an existing entry, and with no flush
\* each returned key still retrieves the payload it was stored with
C14_FreshKeys == []C14_EntriesKept /\ [][C14_NoOverwrite]_vars

\* after a second store call with another payload has returned, get of the
\* first key still returns the first payload
C14_Witness ==
    /\ Len(log) = 2 /\ log[1].arg = IntOf(0) /\ log[2].arg = BytesOf(<<255>>)
    /\ ret.op = "get" /\ ret.key = log[1].key /\ ret.out = Value(BytesOf(<<48>>))

\* C15: when replay has read inputs and outputs lists of different lengths, no
\* decode of an element fails and it prints exactly min(len(inputs),
\* len(outputs)) call lines, line i pairing inputs[i] with outputs[i]
C15_TruncatingZip ==
    (Replayed /\ Len(printed.readIn) # Len(printed.readOut)) =>
        /\ Len(printed.lines) = Min(Len(printed.readIn), Len(printed.readOut))
        /\ \A i \in 1..Min(Len(printed.readIn), Len(printed.readOut)) :
              /\ Utf8Decode(printed.readIn[i]).ok
              /\ printed.lines[i].inp = Utf8Decode(printed.readIn[i]).val
              /\ printed.lines[i].out = printed.readOut[i]

\* replay has run after a store call that raised between its two appends: two
\* inputs, one output, one call line
C15_Witness ==
    /\ Replayed /\ raised = 1
    /\ Len(printed.readIn) = 2 /\ Len(printed.readOut) = 1
    /\ Len(printed.lines) = 1

\* stored contents that are no integer literal: empty, b"\xff", the UTF-8 bytes
\* of "é" and "-1.5"
NotIntLiterals == {<<>>, <<255>>, <<195, 169>>, <<45, 49, 46, 53>>}

\* stored contents that are not valid UTF-8: b"\xff"
NotUtf8 == {<<255>>}

\* the read that just returned: get_int of a key whose content is no integer
\* literal ended with ValueError, get_str of a key whose bytes are not UTF-8
\* with UnicodeDecodeError, and get_str of valid UTF-8 with the text
C16_ErrorReturned ==
    (ret.op \in {"get_int", "get_str"} /\ ret.key \in DOMAIN db) =>
        /\ (ret.op = "get_int" /\ db[ret.key] \in NotIntLiterals) =>
              ret.out = Error("ValueError")
        /\ (ret.op = "get_str" /\ db[ret.key] \in NotUtf8) =>
              ret.out = Error("UnicodeDecodeError")
        /\ (ret.op = "get_str" /\ db[ret.key] = <<195, 169>>) =>
              ret.out = Value(TextOf(<<233>>))

\* a read that ends with an error leaves the database as it was
C16_ErrorKeepsStore ==
    (ret'.op \in {"get_int", "get_str"} /\ ret'.out.kind = "error") =>
        db' = db /\ lists' = lists

\* C16: get_int of an existing key whose content is not a valid integer literal
\* and get_str of an existing key whose bytes are not valid UTF-8 end with an
\* error that reaches the caller, never with None or a default value, and leave
\* the store unchanged
C16_DecodeErrors == []C16_ErrorReturned /\ [][C16_ErrorKeepsStore]_vars

\* get_int of the key that holds the stored float -1.5 has raised ValueError
C16_Witness ==
    /\ ret.op = "get_int" /\ ret.key \in DOMAIN db
    /\ db[ret.key] = <<45, 49, 46, 53>>
    /\ ret.out = Error("ValueError")

\* a step in which get, get_str or get_int returns, or replay reads or prints
ReadStep == ret'.op # "none" \/ rpc' # rpc

\* C17: a step of get, get_str, get_int or replay leaves the whole store as it
\* was: the call counter, both history lists and every stored entry; no key is
\* added for the read itself
C17_ReadsChangeNothing ==
    [][ReadStep =>
            /\ db' = db /\ lists' = lists
            /\ Counter' = Counter /\ Inputs' = Inputs /\ Outputs' = Outputs
            /\ nCalls' = nCalls /\ log' = log]_vars

\* replay has printed two calls and the counter, the lists and the entries are
\* those of the two calls
C17_Witness ==
    /\ Replayed /\ printed.n = 2
    /\ Counter = 2 /\ Len(Inputs) = 2 /\ Len(Outputs) = 2
    /\ DOMAIN db = {QualName} \cup {log[i].key : i \in 1..2}

\* C18: in every state of any interleaving of Cache constructions and store
\* calls of two threads, counter >= len(inputs) >= len(outputs)
C18_CounterBoundsHistory == Counter >= Len(Inputs) /\ Len(Inputs) >= Len(Outputs)

\* the order of the three lengths is lost only by a flush that falls inside a
\* running store call
BoundsOutsideFlush == ~midFlush => C18_CounterBoundsHistory

\* ----------------------------------------------------------------- web.py
NoExpiry == 0 - 1
CountKey(u) == "count:" \o u
CacheKey(u) == "cache:" \o u

\* a key that is still served at the very second its TTL ends
LiveInclusive(d, k, t) == k \in DOMAIN d /\ (d[k].exp = NoExpiry \/ t <= d[k].exp)

\* whether key k holds a value at time t: a key with a TTL is gone once t reaches
\* its expiry time
Live(d, k, t) == k \in DOMAIN d /\ (d[k].exp = NoExpiry \/ t < d[k].exp)

\* INCR of a key of the web database; the key gets no expiry
WebIncrValue(d, k, t) == IF Live(d, k, t) THEN ParseInt(d[k].val).val + 1 ELSE 1
WebIncr(d, k, t) ==
    Put(d, k, [val |-> IntRepr(WebIncrValue(d, k, t)),
               exp |-> IF Live(d, k, t) THEN d[k].exp ELSE NoExpiry])

\* GET at time t
WebGet(d, k, t) == IF Live(d, k, t) THEN Value(BytesOf(d[k].val)) ELSE None

\* a write that appends to the value the key holds (APPEND), with the new TTL
WebSetExAppend(d, k, seconds, v, t) ==
    Put(d, k, [val |-> (IF k \in DOMAIN d THEN d[k].val ELSE <<>>) \o v,
               exp |-> t + seconds])

\* SETEX key seconds value at time t
WebSetEx(d, k, seconds, v, t) == Put(d, k, [val |-> v, exp |-> t + seconds])

\* count:<url> as an integer, 0 while the key is absent
CountValue(u) ==
    IF Live(wdb, CountKey(u), now) THEN ParseInt(wdb[CountKey(u)].val).val ELSE 0

\* bool(cached_content): None and b"" are falsy
Truthy(got) == got # None /\ got.val.bytes # <<>>

\* a wrapper that starts the call without the INCR of count:<url>
PageCallUncounted(c, u) ==
    /\ wpc[c] = "idle"
    /\ started["u"] + started["v"] < MaxPageCalls
    /\ wseen' = [wseen EXCEPT ![c] = WebIncrValue(wdb, CountKey(u), now)]
    /\ wurl' = [wurl EXCEPT ![c] = u]
    /\ wpc' = [wpc EXCEPT ![c] = "check"]
    /\ wcontent' = [wcontent EXCEPT ![c] = <<>>]
    /\ wret' = [wret EXCEPT ![c] = None]
    /\ wpath' = [wpath EXCEPT ![c] = "none"]
    /\ wraced' = [wraced EXCEPT ![c] = FALSE]
    /\ started' = [started EXCEPT ![u] = @ + 1]
    /\ UNCHANGED <<now, wdb, fetches, wroteAt, lastWriter>>
    /\ UNCHANGED cacheVars

\* wrapper, lines 34-39: the call starts and increments count:<url>
PageCall(c, u) ==
    /\ wpc[c] = "idle"
    /\ started["u"] + started["v"] < MaxPageCalls
    /\ wdb' = WebIncr(wdb, CountKey(u), now)
    /\ wseen' = [wseen EXCEPT ![c] = WebIncrValue(wdb, CountKey(u), now)]
    /\ wurl' = [wurl EXCEPT ![c] = u]
    /\ wpc' = [wpc EXCEPT ![c] = "check"]
    /\ wcontent' = [wcontent EXCEPT ![c] = <<>>]
    /\ wret' = [wret EXCEPT ![c] = None]
    /\ wpath' = [wpath EXCEPT ![c] = "none"]
    /\ wraced' = [wraced EXCEPT ![c] = FALSE]
    /\ started' = [started EXCEPT ![u] = @ + 1]
    /\ UNCHANGED <<now, fetches, wroteAt, lastWriter>>
    /\ UNCHANGED cacheVars

\* a check that starts the time-to-live of the entry anew on every hit
PageCheckSliding(c) ==
    /\ wpc[c] = "check"
    /\ LET got == WebGet(wdb, CacheKey(wurl[c]), now)
       IN  IF Truthy(got)
           THEN /\ wret' = [wret EXCEPT ![c] = Decode("str", got.val.bytes)]
                /\ wpath' = [wpath EXCEPT ![c] = "hit"]
                /\ wpc' = [wpc EXCEPT ![c] = "idle"]
                /\ wdb' = WebSetEx(wdb, CacheKey(wurl[c]), TTL, got.val.bytes, now)
                /\ UNCHANGED wraced
           ELSE /\ wpath' = [wpath EXCEPT ![c] = "miss"]
                /\ wpc' = [wpc EXCEPT ![c] = "fetch"]
                /\ wraced' = [wraced EXCEPT ![c] =
                                 \E o \in Callers \ {c} :
                                    wurl[o] = wurl[c] /\ wpc[o] \in {"fetch", "setex"}]
                /\ UNCHANGED <<wret, wdb>>
    /\ UNCHANGED <<now, wurl, wcontent, wseen, started, fetches, wroteAt, lastWriter>>
    /\ UNCHANGED cacheVars

\* wrapper, lines 41-44: GET cache:<url>; a truthy answer is decoded and returned
PageCheck(c) ==
    /\ wpc[c] = "check"
    /\ LET got == WebGet(wdb, CacheKey(wurl[c]), now)
       IN  IF Truthy(got)
           THEN /\ wret' = [wret EXCEPT ![c] = Decode("str", got.val.bytes)]
                /\ wpath' = [wpath EXCEPT ![c] = "hit"]
                /\ wpc' = [wpc EXCEPT ![c] = "idle"]
                /\ UNCHANGED wraced
           ELSE /\ wpath' = [wpath EXCEPT ![c] = "miss"]
                /\ wpc' = [wpc EXCEPT ![c] = "fetch"]
                /\ wraced' = [wraced EXCEPT ![c] =
                                 \E o \in Callers \ {c} :
                                    wurl[o] = wurl[c] /\ wpc[o] \in {"fetch", "setex"}]
                /\ UNCHANGED wret
    /\ UNCHANGED <<now, wdb, wurl, wcontent, wseen, started, fetches, wroteAt, lastWriter>>
    /\ UNCHANGED cacheVars

\* get_page, lines 66-67: requests.get(url) answers; content = response.text
PageFetch(c, body) ==
    /\ wpc[c] = "fetch"
    /\ wcontent' = [wcontent EXCEPT ![c] = body]
    /\ fetches' = [fetches EXCEPT ![wurl[c]] = @ + 1]
    /\ wpc' = [wpc EXCEPT ![c] = "setex"]
    /\ UNCHANGED <<now, wdb, wurl, wret, wseen, wpath, wraced, started, wroteAt,
                   lastWriter>>
    /\ UNCHANGED cacheVars

\* a wrapper that catches the failed fetch and caches an empty body for it
PageFetchFailCached(c) ==
    /\ wpc[c] = "fetch"
    /\ fetches' = [fetches EXCEPT ![wurl[c]] = @ + 1]
    /\ wdb' = WebSetEx(wdb, CacheKey(wurl[c]), TTL, <<>>, now)
    /\ wret' = [wret EXCEPT ![c] = Error("RequestException")]
    /\ wpath' = [wpath EXCEPT ![c] = "failed"]
    /\ wpc' = [wpc EXCEPT ![c] = "idle"]
    /\ UNCHANGED <<now, wurl, wcontent, wseen, wraced, started, wroteAt, lastWriter>>
    /\ UNCHANGED cacheVars

\* get_page, line 66: requests.get(url) raises; the exception leaves the wrapper
PageFetchFail(c) ==
    /\ wpc[c] = "fetch"
    /\ fetches' = [fetches EXCEPT ![wurl[c]] = @ + 1]
    /\ wret' = [wret EXCEPT ![c] = Error("RequestException")]
    /\ wpath' = [wpath EXCEPT ![c] = "failed"]
    /\ wpc' = [wpc EXCEPT ![c] = "idle"]
    /\ UNCHANGED <<now, wdb, wurl, wcontent, wseen, wraced, started, wroteAt, lastWriter>>
    /\ UNCHANGED cacheVars

\* wrapper, lines 50-51: setex(cache_key, 10, content); return content
PageSetex(c) ==
    /\ wpc[c] = "setex"
    /\ wdb' = WebSetEx(wdb, CacheKey(wurl[c]), TTL, Utf8Encode(wcontent[c]), now)
    /\ wret' = [wret EXCEPT ![c] = Value(TextOf(wcontent[c]))]
    /\ wroteAt' = [wroteAt EXCEPT ![wurl[c]] = now]
    /\ lastWriter' = [lastWriter EXCEPT ![wurl[c]] = c]
    /\ wpc' = [wpc EXCEPT ![c] = "idle"]
    /\ UNCHANGED <<now, wurl, wcontent, wseen, wpath, wraced, started, fetches>>
    /\ UNCHANGED cacheVars

\* time passes on the server clock
Tick ==
    /\ now < MaxTime
    /\ now' = now + TickSeconds
    /\ UNCHANGED <<wdb, wpc, wurl, wcontent, wret, wseen, wpath, wraced, started,
                   fetches, wroteAt, lastWriter>>
    /\ UNCHANGED cacheVars

WebNext ==
    \/ \E c \in Callers, u \in URLs : PageCall(c, u)
    \/ \E c \in Callers : PageCheck(c)
    \/ \E c \in Callers, body \in Contents : PageFetch(c, body)
    \/ \E c \in Callers : PageFetchFail(c)
    \/ \E c \in Callers : PageSetex(c)
    \/ Tick

SpecWeb == Init /\ [][WebNext]_vars

\* ------------------------------------------------------ properties of web.py
\* C6: count:<url> equals the number of get_page(url) calls started, whatever
\* their outcome and interleaving; the key has no expiry and never decreases
C6_CountEqualsStarted ==
    /\ [](\A u \in URLs :
            /\ CountValue(u) = started[u]
            /\ CountKey(u) \in DOMAIN wdb => wdb[CountKey(u)].exp = NoExpiry)
    /\ [][\A u \in URLs : CountValue(u)' >= CountValue(u)]_vars

\* three calls for one url have been counted: a hit, and a miss whose fetch failed
C6_Witness ==
    \E u \in URLs, c, o \in Callers :
        /\ CountValue(u) = 3 /\ wurl[c] = u /\ wurl[o] = u
        /\ wpath[c] = "hit" /\ wpath[o] = "failed"

\* the step in which caller c leaves the cache check of its call
ChecksCache(c) == wpc[c] = "check" /\ wpc'[c] # "check"

\* C7: a get_page(url) that checks the cache while cache:<url> is present and
\* not expired returns the stored content and performs no network fetch
C7_HitReturnsStored ==
    [][\A c \in Callers :
          (ChecksCache(c) /\ Live(wdb, CacheKey(wurl[c]), now)) =>
              /\ wpc'[c] = "idle"
              /\ wret'[c] = Value(TextOf(Utf8Decode(wdb[CacheKey(wurl[c])].val).val))
              /\ fetches' = fetches]_vars

\* C8: a cache:<url> entry is treated as absent once 10 seconds have passed
\* since it was written, so a call that checks the cache then goes on to fetch,
\* and the entry a call writes expires 10 seconds after that write
C8_ExpiresAfterTTL ==
    [][\A c \in Callers :
          /\ (/\ ChecksCache(c)
              /\ CacheKey(wurl[c]) \in DOMAIN wdb
              /\ now >= wroteAt[wurl[c]] + 10) => wpc'[c] = "fetch"
          /\ (wpc[c] = "setex" /\ wpc'[c] = "idle") =>
                 /\ wdb'[CacheKey(wurl[c])] =
                        [val |-> Utf8Encode(wcontent[c]), exp |-> now + 10]
                 /\ wroteAt'[wurl[c]] = now]_vars

\* a first call fetched and cached, a second was served from the cache, and a
\* third, after the entry had expired, fetched again and wrote a fresh entry
C8_Witness ==
    \E u \in URLs, c, o \in Callers :
        /\ CountValue(u) = 3 /\ fetches[u] = 2 /\ wurl[c] = u /\ wurl[o] = u
        /\ wpc[c] = "idle" /\ wpath[c] = "miss" /\ wpath[o] = "hit"
        /\ wroteAt[u] >= 10 /\ lastWriter[u] = c
        /\ wdb[CacheKey(u)].exp = wroteAt[u] + 10

\* C9: when the network fetch fails the error reaches the caller, the database
\* (cache:<url> included) is left as it was, and count:<url> keeps the
\* increment of that call
C9_FetchFailure ==
    [][\A c \in Callers :
          (wpc[c] = "fetch" /\ wpc'[c] = "idle") =>
              /\ wret'[c] = Error("RequestException")
              /\ wdb' = wdb
              /\ wseen[c] >= 1
              /\ CountValue(wurl[c])' >= wseen[c]]_vars

\* a first call for a url failed at the fetch: counted, nothing cached
C9_Witness ==
    \E c \in Callers :
        /\ wpath[c] = "failed" /\ wpc[c] = "idle"
        /\ wret[c] = Error("RequestException")
        /\ CountValue(wurl[c]) = 1
        /\ CacheKey(wurl[c]) \notin DOMAIN wdb

\* callers c and o have finished two back-to-back counted calls for one url,
\* both of which missed the cache and fetched
BothMissed(c, o) ==
    /\ c # o
    /\ wpc[c] = "idle" /\ wpc[o] = "idle"
    /\ wurl[c] = wurl[o]
    /\ wpath[c] = "miss" /\ wpath[o] = "miss"
    /\ wseen[o] = wseen[c] + 1

\* C10: after two callers that both missed the cache of one url have finished,
\* cache:<url> holds the content of the fetch of the one that wrote last, and
\* count:<url> has grown by 2
C10_LastWriteWins ==
    \A c, o \in Callers :
        BothMissed(c, o) =>
            LET u == wurl[c]
            IN  /\ lastWriter[u] \in {c, o}
                /\ wdb[CacheKey(u)].val \in {Utf8Encode(wcontent[c]), Utf8Encode(wcontent[o])}
                /\ wdb[CacheKey(u)].val = Utf8Encode(wcontent[lastWriter[u]])
                /\ wdb[CacheKey(u)].exp = wroteAt[u] + 10
                /\ CountValue(u) = (wseen[c] - 1) + 2

\* both callers missed while the other's fetch was not yet written, the two
\* fetches answered different bodies, and the earlier caller wrote last
C10_Witness ==
    \E c, o \in Callers :
        /\ BothMissed(c, o)
        /\ wraced[o]
        /\ wcontent[c] = <<233>> /\ wcontent[o] = <<97>>
        /\ lastWriter[wurl[c]] = c

\* caller c is served from the cache in this step
HitStep(c) == wpc[c] = "check" /\ wpc'[c] = "idle"

\* every cache:<url> entry expires 10 seconds after the last write of a fetched
\* content for the url
C19_ExpiryFromWrite ==
    \A u \in URLs :
        CacheKey(u) \in DOMAIN wdb => wdb[CacheKey(u)].exp = wroteAt[u] + 10

\* a hit writes nothing and returns content written less than 10 seconds
\* before; the expiry of an entry moves only in the write that follows a fetch;
\* a check made once the expiry is reached goes on to fetch, whatever the
\* number of hits before it
C19_HitSteps ==
    /\ \A c \in Callers :
          HitStep(c) =>
              /\ wdb' = wdb /\ wroteAt' = wroteAt /\ fetches' = fetches
              /\ now - wroteAt[wurl[c]] < 10
              /\ wret'[c] = Value(TextOf(Utf8Decode(wdb[CacheKey(wurl[c])].val).val))
    /\ \A u \in URLs :
          (CacheKey(u) \in DOMAIN wdb /\ wdb'[CacheKey(u)] # wdb[CacheKey(u)]) =>
              \E c \in Callers :
                  wurl[c] = u /\ wpc[c] = "setex" /\ wpc'[c] = "idle" /\ fetches[u] >= 1
    /\ \A c \in Callers :
          (/\ ChecksCache(c)
           /\ CacheKey(wurl[c]) \in DOMAIN wdb
           /\ now >= wdb[CacheKey(wurl[c])].exp) => wpc'[c] = "fetch"

\* C19: a cache hit in get_page never writes cache:<url> and never extends its
\* time-to-live, so content returned from the cache was written less than 10
\* seconds before the read, and a call made once 10 seconds have passed since
\* the write fetches anew however many hits came in between
C19_HitsDoNotRefresh == []C19_ExpiryFromWrite /\ [][C19_HitSteps]_vars

\* the content written at time 0 served a second call from the cache, and a
\* third call at time 10 has missed and is about to fetch
C19_Witness ==
    \E u \in URLs, c, o \in Callers :
        /\ CountValue(u) = 3 /\ fetches[u] = 1 /\ wroteAt[u] = 0 /\ now = 10
        /\ wurl[c] = u /\ wpath[c] = "hit" /\ wpc[c] = "idle"
        /\ wurl[o] = u /\ wpath[o] = "miss" /\ wpc[o] = "fetch"
        /\ wdb[CacheKey(u)].exp = 10

====
